---- MODULE Spec2Model ----
(***************************************************************************)
(* auto-delete-path (src/lib.rs): AutoDeletePath, a path that is deleted   *)
(* when its owner goes out of scope, the process-wide PATH_COUNT that      *)
(* names temporary paths, and the include_to_auto_delete_path! macro.      *)
(*                                                                         *)
(* A path is the string the code formats.  The filesystem is a function    *)
(* from the paths that exist to their entries.  Every AutoDeletePath       *)
(* instance lives in a slot of `handles`; the slot also holds the position *)
(* of the code that owns the instance and a record of what its drop did.   *)
(***************************************************************************)
EXTENDS Integers, Sequences, FiniteSets, TLC

VARIABLES
    PATH_COUNT,   \* static PATH_COUNT: AtomicU16
    calls,        \* number of fetch_add calls made so far in the process
    handles,      \* slot -> AutoDeletePath instance and its history
    fs            \* path -> entry, for the paths that exist

vars == <<PATH_COUNT, calls, handles, fs>>

----------------------------------------------------------------------------
(* Bounds of the model *)

MaxCalls == 2          \* generator calls explored by Spec
GenCalls == 4          \* generator calls explored by SpecGen
MaxMoves == 2          \* ownership transfers recorded per instance
MaxKeep == 2           \* SpecWrap: the calls whose handle may be kept alive
WrapExtra == 3         \* SpecWrap: calls explored beyond the counter's range

(* Program constants *)

Modulus == 65536       \* AtomicU16: the counter has 16 bits
InitialCount == 1      \* AtomicU16::new(1)

Slots == {1, 2, 3}
Dirs == {"/tmp", "/scratch"}          \* values of std::env::temp_dir()
TempDir == "/tmp"
Rels == {"subfile", "subdir", "subdir/inner"}
Spam == <<"s", "p", "a", "m">>
Embedded == {<<>>, <<"I", "n">>}      \* include_bytes! contents
UserScopes == {"scope_a", "scope_b"}
Exits == {"normal", "early_return", "unwind"}

----------------------------------------------------------------------------
(* The path generator *)

Digit(d) == <<"0", "1", "2", "3", "4", "5", "6", "7", "8", "9">>[d + 1]

RECURSIVE Decimal(_)
Decimal(n) == IF n < 10 THEN Digit(n) ELSE Decimal(n \div 10) \o Digit(n % 10)

\* PATH_COUNT.fetch_add(1, Relaxed): one indivisible read-modify-write that
\* returns the previous value and wraps at the width of the counter.
fetch_add_stuck(c) == [ret |-> c, new |-> c]
fetch_add_returns_new(c) == [ret |-> (c + 1) % Modulus, new |-> (c + 1) % Modulus]
fetch_add(c) == [ret |-> c, new |-> (c + 1) % Modulus]

\* format!("{}/rustytemp-{}", directory.display(), n)
format_path(directory, n) == directory \o "/rustytemp-" \o Decimal(n)

\* Path::join for a relative path
join(p, rel) == p \o "/" \o rel

----------------------------------------------------------------------------
(* The filesystem primitives the code calls *)

Dir == [kind |-> "dir", data |-> <<>>]
File(bytes) == [kind |-> "file", data |-> bytes]

exists(f, p) == p \in DOMAIN f
is_dir(f, p) == p \in DOMAIN f /\ f[p].kind = "dir"
is_file(f, p) == p \in DOMAIN f /\ f[p].kind = "file"
KindAt(f, p) == IF p \in DOMAIN f THEN f[p].kind ELSE "none"

Under(f, p) == {q \in DOMAIN f : \E r \in Rels : q = join(p, r)}
Without(f, gone) == [q \in DOMAIN f \ gone |-> f[q]]
With(f, p, e) == [q \in DOMAIN f \cup {p} |-> IF q = p THEN e ELSE f[q]]

RelParent(r) == IF r = "subdir/inner" THEN "subdir" ELSE ""
ParentOf(p, r) == IF RelParent(r) = "" THEN p ELSE join(p, RelParent(r))

\* The sets of entries beneath p that a remove_dir_all which fails part-way
\* may already have removed: a directory goes only after its contents.
PartialRemovals(f, p) ==
    {g \in SUBSET Under(f, p) :
        \A r \in Rels : join(p, r) \in Under(f, p) /\ ParentOf(p, r) \in g
                           => join(p, r) \in g}

\* std::fs::remove_file: os is the verdict of the operating system.
remove_file(f, p, os) ==
    IF is_file(f, p) /\ os = "ok"
        THEN [ok |-> TRUE, fs |-> Without(f, {p})]
        ELSE [ok |-> FALSE, fs |-> f]

\* std::fs::remove_dir (not recursive): fails on a directory that is not empty.
remove_dir(f, p, os, gone) ==
    IF is_dir(f, p) /\ os = "ok" /\ Under(f, p) = {}
        THEN [ok |-> TRUE, fs |-> Without(f, {p})]
        ELSE [ok |-> FALSE, fs |-> f]

\* std::fs::remove_dir_all: the directory and everything beneath it; when the
\* operating system refuses, the entries in gone are removed before the error.
remove_dir_all(f, p, os, gone) ==
    IF ~is_dir(f, p) THEN [ok |-> FALSE, fs |-> f]
    ELSE IF os = "ok" THEN [ok |-> TRUE, fs |-> Without(f, Under(f, p) \cup {p})]
    ELSE [ok |-> FALSE, fs |-> Without(f, gone)]

\* std::fs::write / File::create + write_all: creates or truncates a file.
write(f, p, bytes) ==
    IF is_dir(f, p) THEN [ok |-> FALSE, fs |-> f]
    ELSE [ok |-> TRUE, fs |-> With(f, p, File(bytes))]

\* std::fs::create_dir
create_dir(f, p) ==
    IF exists(f, p) THEN [ok |-> FALSE, fs |-> f]
    ELSE [ok |-> TRUE, fs |-> With(f, p, Dir)]

----------------------------------------------------------------------------
(* impl Drop for AutoDeletePath *)

\* The result of fn drop: the filesystem afterwards, the removal calls it
\* issued, whether the call returned Err, and whether drop panicked.
\* .ok() turns the io::Result into an Option that is thrown away.
drop_unwrap(f, p, os, gone) ==
    LET r == IF is_dir(f, p) THEN remove_dir_all(f, p, os, gone)
                             ELSE remove_file(f, p, os)
    IN  [fs |-> r.fs,
         rm |-> IF is_dir(f, p) THEN <<"remove_dir_all">> ELSE <<"remove_file">>,
         err |-> ~r.ok, panicked |-> ~r.ok]

drop_both(f, p, os, gone) ==
    LET r1 == remove_dir_all(f, p, os, gone)
        r2 == remove_file(r1.fs, p, os)
    IN  [fs |-> r2.fs, rm |-> <<"remove_dir_all", "remove_file">>,
         err |-> ~(r1.ok \/ r2.ok), panicked |-> FALSE]

drop_swapped(f, p, os, gone) ==
    LET r == IF is_dir(f, p) THEN remove_file(f, p, os)
                             ELSE remove_dir_all(f, p, os, gone)
    IN  [fs |-> r.fs,
         rm |-> IF is_dir(f, p) THEN <<"remove_file">> ELSE <<"remove_dir_all">>,
         err |-> ~r.ok, panicked |-> FALSE]

drop_not_recursive(f, p, os, gone) ==
    LET r == IF is_dir(f, p) THEN remove_dir(f, p, os, gone)
                             ELSE remove_file(f, p, os)
    IN  [fs |-> r.fs,
         rm |-> IF is_dir(f, p) THEN <<"remove_dir">> ELSE <<"remove_file">>,
         err |-> ~r.ok, panicked |-> FALSE]

drop(f, p, os, gone) ==
    LET r == IF is_dir(f, p) THEN remove_dir_all(f, p, os, gone)
                             ELSE remove_file(f, p, os)
    IN  [fs |-> r.fs,
         rm |-> IF is_dir(f, p) THEN <<"remove_dir_all">> ELSE <<"remove_file">>,
         err |-> ~r.ok, panicked |-> FALSE]

----------------------------------------------------------------------------
(* State *)

\* state: free   no instance
\*        gen    inside create_temp_path_at_directory, fetch_add done
\*        live   the instance exists and is owned by the code at `at`
\*        ended  the owner's scope ended and drop ran
\* by is the constructor's caller: temp (a caller of AutoDeletePath::temp) or
\* include (the macro).
\* k is the index of the generator call among all calls of the process, n the
\* value fetch_add returned.  pre, os, rm, err, panicked and exit record the
\* drop: the kind of entry at the path when drop began, the operating
\* system's verdict, the removal calls issued, and how the scope ended.
FreeSlot ==
    [state |-> "free", by |-> "none", k |-> 0, n |-> 0, dir |-> "", path |-> "",
     at |-> "none",
     bytes |-> <<>>, moves |-> 0, pre |-> "none", sub |-> {}, os |-> "none",
     rm |-> <<>>, err |-> FALSE, panicked |-> FALSE, exit |-> "none"]

Init ==
    /\ PATH_COUNT = InitialCount
    /\ calls = 0
    /\ handles = [s \in Slots |-> FreeSlot]
    /\ fs = [d \in Dirs |-> Dir]

Live(s) == handles[s].state = "live"
Ended(s) == handles[s].state = "ended"
Reusable(s) == handles[s].state \in {"free", "ended"}


Sub(f, p) == {r \in Rels : join(p, r) \in DOMAIN f}

----------------------------------------------------------------------------
(* AutoDeletePath::temp and create_temp_path_at_directory *)

\* The fetch_add inside create_temp_path_at_directory, reached from temp().
\* directory is what std::env::temp_dir() returned to create_temp_path.
Generate(s, directory, maker, owner, bytes) ==
    LET r == fetch_add(PATH_COUNT)
    IN  /\ Reusable(s)
        /\ PATH_COUNT' = r.new
        /\ calls' = calls + 1
        /\ handles' = [handles EXCEPT ![s] =
               [FreeSlot EXCEPT !.state = "gen", !.by = maker, !.k = calls + 1,
                                !.n = r.ret, !.dir = directory, !.at = owner,
                                !.bytes = bytes]]
        /\ UNCHANGED fs

\* A caller's AutoDeletePath::temp(): the counter step.
TempCall(s, directory) ==
    /\ calls < MaxCalls
    /\ Generate(s, directory, "temp", "scope_a", <<>>)

\* The rest of the call: format!, PathBuf::from, Self { path }.
FormatAndCreate(s) ==
    LET p == format_path(handles[s].dir, handles[s].n)
    IN  /\ handles[s].state = "gen"
        /\ handles' = [handles EXCEPT ![s].state = "live", ![s].path = p]
        /\ fs' = write(fs, p, <<>>).fs
        /\ UNCHANGED <<PATH_COUNT, calls>>

Format(s) ==
    /\ handles[s].state = "gen"
    /\ handles' = [handles EXCEPT ![s].state = "live",
                                  ![s].path = format_path(handles[s].dir, handles[s].n)]
    /\ UNCHANGED <<PATH_COUNT, calls, fs>>

----------------------------------------------------------------------------
(* What the owner of a live instance does with the path (the doc tests) *)

InUserScope(s) == Live(s) /\ handles[s].at \in UserScopes

\* std::fs::write(&temp_path, "spam")
Write(s) ==
    /\ InUserScope(s)
    /\ fs' = write(fs, handles[s].path, Spam).fs
    /\ fs' # fs
    /\ UNCHANGED <<PATH_COUNT, calls, handles>>

\* std::fs::create_dir(&tmp_path)
CreateDir(s) ==
    /\ InUserScope(s)
    /\ fs' = create_dir(fs, handles[s].path).fs
    /\ fs' # fs
    /\ UNCHANGED <<PATH_COUNT, calls, handles>>

\* tmp_path.as_ref().join(rel), then File::create or create_dir on it
CreateChild(s, rel) ==
    LET p == handles[s].path
        q == join(p, rel)
    IN  /\ InUserScope(s)
        /\ is_dir(fs, ParentOf(p, rel))
        /\ ~exists(fs, q)
        /\ fs' = With(fs, q, IF rel = "subdir" THEN Dir ELSE File(<<>>))
        /\ UNCHANGED <<PATH_COUNT, calls, handles>>

\* The instance is moved to another owner (a move runs no code).
Move(s) ==
    /\ InUserScope(s)
    /\ handles[s].moves < MaxMoves
    /\ handles' = [handles EXCEPT
           ![s].at = IF handles[s].at = "scope_a" THEN "scope_b" ELSE "scope_a",
           ![s].moves = handles[s].moves + 1]
    /\ UNCHANGED <<PATH_COUNT, calls, fs>>

----------------------------------------------------------------------------
(* Scope end *)

\* The owner's scope ends and fn drop runs.  how is the way the scope ended,
\* os the operating system's verdict on the removal call, gone what a
\* refused remove_dir_all had already removed.
Drop(s, how, os, gone) ==
    LET p == handles[s].path
        r == drop(fs, p, os, gone)
    IN  /\ Live(s)
        /\ \/ handles[s].at \in UserScopes
           \/ handles[s].at = "inc_panic" /\ how = "unwind"
        /\ gone \in PartialRemovals(fs, p)
        /\ (os = "ok" \/ ~is_dir(fs, p)) => gone = {}
        /\ fs' = r.fs
        /\ handles' = [handles EXCEPT ![s] =
               [@ EXCEPT !.state = "ended", !.pre = KindAt(fs, p), !.sub = Sub(fs, p),
                         !.os = os, !.rm = r.rm, !.err = r.err,
                         !.panicked = r.panicked, !.exit = how]]
        /\ UNCHANGED <<PATH_COUNT, calls>>

----------------------------------------------------------------------------
(* include_to_auto_delete_path! *)

\* let tmp_path = $crate::AutoDeletePath::temp();  (the counter step)
IncludeCall(s, directory, bytes) ==
    /\ calls < MaxCalls
    /\ Generate(s, directory, "include", "inc_temp", bytes)

\* let mut file = std::fs::File::create(&tmp_path).unwrap();
IncludeCreate(s, os) ==
    LET p == handles[s].path
        r == write(fs, p, <<>>)
    IN  /\ Live(s)
        /\ handles[s].at = "inc_temp"
        /\ IF os = "ok" /\ r.ok
              THEN /\ fs' = r.fs
                   /\ handles' = [handles EXCEPT ![s].at = "inc_file"]
              ELSE /\ fs' = fs
                   /\ handles' = [handles EXCEPT ![s].at = "inc_panic"]
        /\ UNCHANGED <<PATH_COUNT, calls>>

\* file.write_all(file_bytes).unwrap(); tmp_path
\* written is the number of bytes that reached the file before an error;
\* write_all of an empty slice returns Ok without a system call.
IncludeWriteOnce(s, os, written) ==
    LET p == handles[s].path
        b == handles[s].bytes
    IN  /\ Live(s)
        /\ handles[s].at = "inc_file"
        /\ written <= Len(b)
        /\ IF os = "ok"
              THEN handles' = [handles EXCEPT ![s].at = "scope_a"]
              ELSE handles' = [handles EXCEPT ![s].at = "inc_panic"]
        /\ fs' = With(fs, p, File(SubSeq(b, 1, written)))
        /\ UNCHANGED <<PATH_COUNT, calls>>

IncludeWrite(s, os, written) ==
    LET p == handles[s].path
        b == handles[s].bytes
    IN  /\ Live(s)
        /\ handles[s].at = "inc_file"
        /\ IF os = "ok" \/ b = <<>>
              THEN /\ written = Len(b)
                   /\ os = "ok"
                   /\ handles' = [handles EXCEPT ![s].at = "scope_a"]
              ELSE /\ written < Len(b)
                   /\ handles' = [handles EXCEPT ![s].at = "inc_panic"]
        /\ fs' = With(fs, p, File(SubSeq(b, 1, written)))
        /\ UNCHANGED <<PATH_COUNT, calls>>

----------------------------------------------------------------------------
(* Specifications *)

OsVerdicts == {"ok", "refused"}
LifeSlots == {1}
GenSlots == {1, 2, 3}
WrapSlots == {1, 2}

\* Spec: the life of one instance after another, under an operating system
\* that may refuse a removal, a file creation or a write.
Next ==
    \/ \E s \in LifeSlots : TempCall(s, TempDir)
    \/ \E s \in LifeSlots : Format(s)
    \/ \E s \in LifeSlots : Write(s)
    \/ \E s \in LifeSlots : CreateDir(s)
    \/ \E s \in LifeSlots, r \in Rels : CreateChild(s, r)
    \/ \E s \in LifeSlots : Move(s)
    \/ \E s \in LifeSlots, how \in Exits, os \in OsVerdicts :
           \E gone \in PartialRemovals(fs, handles[s].path) : Drop(s, how, os, gone)
    \/ \E s \in LifeSlots, b \in Embedded : IncludeCall(s, TempDir, b)
    \/ \E s \in LifeSlots, os \in OsVerdicts : IncludeCreate(s, os)
    \/ \E s \in LifeSlots, os \in OsVerdicts :
           \E w \in 0..Len(handles[s].bytes) : IncludeWrite(s, os, w)

Spec == Init /\ [][Next]_vars

\* SpecGen: threads calling temp() concurrently, each call in its two steps.
GenCall(s, directory) ==
    /\ calls < GenCalls
    /\ Generate(s, directory, "temp", "scope_a", <<>>)

GenDrop(s) == Drop(s, "normal", "ok", {})

NextGen ==
    \/ \E s \in GenSlots, d \in Dirs : GenCall(s, d)
    \/ \E s \in GenSlots : Format(s)
    \/ \E s \in GenSlots : GenDrop(s)

SpecGen == Init /\ [][NextGen]_vars

\* SpecWrap: one thread calling temp() until the counter has wrapped.  Slot 1
\* takes an instance of one of the first MaxKeep calls, which may be kept alive
\* and written to; slot 2 takes the others, each dropped before the next call.
WrapTemp(s, directory) ==
    LET r == fetch_add(PATH_COUNT)
    IN  /\ calls < Modulus + WrapExtra
        /\ Reusable(s)
        /\ s = 1 => calls < MaxKeep /\ handles[s].state = "free"
        /\ \A t \in WrapSlots \ {s} : Live(t) => handles[t].k <= MaxKeep
        /\ PATH_COUNT' = r.new
        /\ calls' = calls + 1
        /\ handles' = [handles EXCEPT ![s] =
               [FreeSlot EXCEPT !.state = "live", !.by = "temp", !.k = calls + 1,
                                !.n = r.ret, !.dir = directory, !.at = "scope_a",
                                !.path = format_path(directory, r.ret)]]
        /\ UNCHANGED fs

WrapWrite(s) == handles[s].k <= MaxKeep /\ Write(s)

WrapDrop(s) == Drop(s, "normal", "ok", {})

NextWrap ==
    \/ \E s \in WrapSlots : \E d \in (IF s = 1 THEN {TempDir} ELSE Dirs) : WrapTemp(s, d)
    \/ \E s \in WrapSlots : WrapWrite(s)
    \/ \E s \in WrapSlots : WrapDrop(s)

SpecWrap == Init /\ [][NextWrap]_vars

----------------------------------------------------------------------------
(* Properties *)

HasPath(s) == handles[s].state \in {"live", "ended"}
NothingAt(f, p) == ~exists(f, p) /\ \A r \in Rels : ~exists(f, join(p, r))
Distance(a, b) == IF a < b THEN b - a ELSE a - b

\* C1 as stated: once the scope of a handle has ended -- normally, by an early
\* return or by unwinding -- with a regular file at its path, no entry exists
\* at the path.
C1_FileGone ==
    \A s \in Slots :
        Ended(s) /\ handles[s].pre = "file" => ~exists(fs, handles[s].path)

\* C1 amended: once the scope of a handle has ended, in whichever way, with a
\* regular file at its path, no entry exists at the path unless the operating
\* system refused the removal.
C1_FileGoneUnlessRefused ==
    \A s \in Slots :
        Ended(s) /\ handles[s].pre = "file" /\ handles[s].os = "ok"
            => ~exists(fs, handles[s].path)

C1_Witness ==
    \E s \in Slots :
        /\ Ended(s) /\ handles[s].by = "temp" /\ handles[s].pre = "file"
        /\ handles[s].exit = "unwind" /\ handles[s].os = "ok"
        /\ ~exists(fs, handles[s].path)

\* C2 as stated: once the scope of a handle has ended with a directory at its
\* path, neither the directory nor any entry beneath it exists.
C2_TreeGone ==
    \A s \in Slots :
        Ended(s) /\ handles[s].pre = "dir" => NothingAt(fs, handles[s].path)

\* C2 amended: once the scope of a handle has ended with a directory at its
\* path, neither the directory nor any entry beneath it exists, unless the
\* operating system refused the removal.
C2_TreeGoneUnlessRefused ==
    \A s \in Slots :
        Ended(s) /\ handles[s].pre = "dir" /\ handles[s].os = "ok"
            => NothingAt(fs, handles[s].path)

C2_Witness ==
    \E s \in Slots :
        /\ Ended(s) /\ handles[s].pre = "dir" /\ handles[s].sub = Rels
        /\ handles[s].os = "ok" /\ NothingAt(fs, handles[s].path)

\* C3: under any interleaving of the calls' steps, and while fewer than 2^16
\* calls have been made, no two calls have been handed the same counter value
\* and no two calls have returned the same path.
C3_DistinctPaths ==
    calls < Modulus =>
        \A s, t \in Slots :
            s # t /\ handles[s].state # "free" /\ handles[t].state # "free"
                => /\ handles[s].n # handles[t].n
                   /\ HasPath(s) /\ HasPath(t) => handles[s].path # handles[t].path

C3_Witness ==
    \E s, t, u \in Slots :
        /\ s # t /\ t # u /\ s # u
        /\ handles[s].state = "gen" /\ handles[t].state = "gen" /\ Live(u)
        /\ handles[s].dir = handles[t].dir /\ handles[t].dir = handles[u].dir
        /\ handles[u].k > handles[s].k

C6_OneRemovalAtScopeEnd ==
    [][\A s \in Slots :
          /\ Live(s) => handles[s].rm = <<>>
          /\ Live(s) /\ handles'[s].state = "live" /\ handles'[s].at # handles[s].at
                /\ handles[s].at \in UserScopes
                => fs' = fs /\ handles'[s].rm = <<>>
          /\ Live(s) /\ handles'[s].state = "ended"
                => /\ Len(handles'[s].rm) = 1
                   /\ handles'[s].rm[1] \in {"remove_dir_all", "remove_file"}
          /\ Ended(s) /\ handles'[s].state = "ended"
                => handles'[s].rm = handles[s].rm /\ fs' = fs]_vars

C6_Witness ==
    \E s \in Slots :
        /\ Ended(s) /\ handles[s].moves >= 2 /\ handles[s].at = "scope_a"
        /\ handles[s].rm = <<"remove_dir_all">>

\* C7: the k-th call of the process, with base directory B, returns the string
\* B/rustytemp-N with N = k mod 2^16 in decimal, and the counter is
\* (1 + number of calls) mod 2^16.
C7_KthPath ==
    /\ PATH_COUNT = (InitialCount + calls) % Modulus
    /\ \A s \in Slots :
          HasPath(s) =>
              handles[s].path =
                  handles[s].dir \o "/rustytemp-" \o ToString(handles[s].k % Modulus)

C7_Witness ==
    \E s \in Slots :
        /\ Live(s) /\ handles[s].k = Modulus
        /\ handles[s].path = "/scratch/rustytemp-0"
        /\ PATH_COUNT = 1

\* C8 as stated: when the macro returns, a regular file holding exactly the
\* embedded bytes exists at the freshly generated path of the handle it
\* returns, and no entry exists at the path once that handle's scope has ended.
C8_Returned(s) ==
    handles[s].at = "inc_file" /\ handles'[s].at \in UserScopes
        => /\ handles'[s].state = "live"
           /\ handles'[s].path = format_path(handles[s].dir, handles[s].n)
           /\ is_file(fs', handles'[s].path)
           /\ fs'[handles'[s].path].data = handles[s].bytes

C8_FromMacro(s) ==
    Live(s) /\ handles[s].by = "include" /\ handles[s].at \in UserScopes
        /\ handles'[s].state = "ended"

C8_Materialized ==
    [][\A s \in Slots :
          /\ C8_Returned(s)
          /\ C8_FromMacro(s) => ~exists(fs', handles[s].path)]_vars

\* C8 amended: when the macro returns, a regular file holding exactly the
\* embedded bytes exists at the freshly generated path of the handle it
\* returns, and no entry exists at the path once that handle's scope has
\* ended, unless the operating system refused the removal.
C8_MaterializedUnlessRefused ==
    [][\A s \in Slots :
          /\ C8_Returned(s)
          /\ C8_FromMacro(s) /\ handles'[s].os = "ok"
                => ~exists(fs', handles[s].path)]_vars

C8_Witness ==
    \E s \in Slots :
        /\ Ended(s) /\ handles[s].by = "include" /\ handles[s].at \in UserScopes
        /\ handles[s].bytes # <<>> /\ handles[s].pre = "file"
        /\ handles[s].os = "ok" /\ ~exists(fs, handles[s].path)

\* C9 as stated: no two handles that are live at the same time wrap the same
\* path, however many calls have been made.
C9_NoSharedPath ==
    \A s, t \in Slots :
        s # t /\ Live(s) /\ Live(t) => handles[s].path # handles[t].path

\* C9 amended: no two handles that are live at the same time and were created
\* fewer than 2^16 generator calls apart wrap the same path.
C9_NoSharedPathWithinRange ==
    \A s, t \in Slots :
        s # t /\ Live(s) /\ Live(t)
            /\ Distance(handles[s].k, handles[t].k) < Modulus
            => handles[s].path # handles[t].path

C9_Witness ==
    \E s, t \in Slots :
        /\ Live(s) /\ Live(t) /\ handles[s].dir = handles[t].dir
        /\ handles[s].k = 2 /\ handles[t].k = Modulus + 1
        /\ is_file(fs, handles[s].path)

\* Inside the macro a step either creates the file, or returns the handle with
\* the whole content written, or panics: with nothing created when
\* File::create failed, with a proper prefix of the content when write_all did.
C10_Fails(s) ==
    LET p == handles[s].path
        b == handles[s].bytes
    IN  /\ Live(s) /\ handles[s].at = "inc_temp" /\ handles'[s] # handles[s]
              => \/ handles'[s].at = "inc_file" /\ is_file(fs', p)
                 \/ handles'[s].at = "inc_panic" /\ fs' = fs
        /\ Live(s) /\ handles[s].at = "inc_file" /\ handles'[s] # handles[s]
              => /\ is_file(fs', p)
                 /\ \/ handles'[s].at = "scope_a" /\ fs'[p].data = b
                    \/ /\ handles'[s].at = "inc_panic"
                       /\ \E w \in 0..(Len(b) - 1) : fs'[p].data = SubSeq(b, 1, w)

\* C10 as stated: a handle is returned by the macro only when File::create and
\* write_all succeeded; a handle whose macro call panicked is never returned to
\* a caller, its scope ends by the unwinding alone, with one removal call and
\* no second panic, and afterwards no entry exists at its path.
C10_Unwound(s) ==
    /\ handles'[s].at = "inc_panic"
    /\ handles'[s].state \in {"live", "ended"}
    /\ handles'[s].state = "ended"
          => /\ handles'[s].exit = "unwind"
             /\ Len(handles'[s].rm) = 1
             /\ ~handles'[s].panicked

C10_PanicCleansUp ==
    [][\A s \in Slots :
          /\ C10_Fails(s)
          /\ Live(s) /\ handles[s].at = "inc_panic"
                => /\ C10_Unwound(s)
                   /\ handles'[s].state = "ended" => ~exists(fs', handles[s].path)]_vars

\* C10 amended: as stated, except that the entry may remain at the path when
\* the operating system refused the removal.
C10_PanicCleansUpUnlessRefused ==
    [][\A s \in Slots :
          /\ C10_Fails(s)
          /\ Live(s) /\ handles[s].at = "inc_panic"
                => /\ C10_Unwound(s)
                   /\ handles'[s].state = "ended" /\ handles'[s].os = "ok"
                         => ~exists(fs', handles[s].path)]_vars

C10_Witness ==
    \E s \in Slots :
        /\ Ended(s) /\ handles[s].at = "inc_panic" /\ handles[s].pre = "file"
        /\ handles[s].exit = "unwind" /\ handles[s].os = "ok"
        /\ ~exists(fs, handles[s].path)

====
